---- MODULE Spec2Model ----
(***************************************************************************)
(* Model of src/src/auth/auth_manager.py: the AuthManager session          *)
(* lifecycle (authenticate, validate_session, refresh_token, logout,       *)
(* change_password, check_permission, get_user_info,                       *)
(* cleanup_expired_sessions) over the in-memory session cache, the user    *)
(* table and the SessionEncryption token codec.                            *)
(*                                                                         *)
(* Time is an integer clock `now` (time.time()); a handler runs atomically *)
(* and reads one clock value, except in SpecThreads, where two threads     *)
(* interleave statement by statement.  AES-CBC is modelled                 *)
(* symbolically: a token carries the key it was produced under, its IV and *)
(* the JSON text it decrypts to; decryption under another key or of a      *)
(* string that is not base64 fails.  bcrypt is modelled symbolically too:  *)
(* a hash carries its salt and the value that was hashed.                  *)
(***************************************************************************)
EXTENDS Integers, Sequences, FiniteSets, TLC

(* ---------------- bounds of the model ---------------- *)
\* last clock value explored
MaxTime == 4
\* number of tokens encrypt() may produce in one behaviour
MaxIssued == 2
\* AuthManager(session_duration_hours, refresh_interval_hours): the configured
\* instance explored, in clock units
session_duration == 3
refresh_interval == 2

(* ---------------- Python values ---------------- *)
\* Python's None where an Optional[str] is expected
None == "None"

\* class UserRole(str, Enum): member names, and their values
UserRole == {"UserRole.ADMIN", "UserRole.USER"}

RoleValue(role) == IF role = "UserRole.ADMIN" THEN "admin" ELSE "user"

\* UserRole(value): lookup by value; any other value raises ValueError
IsRoleValue(value) == value \in {"admin", "user"}

UserRoleOf(value) == IF value = "admin" THEN "UserRole.ADMIN" ELSE "UserRole.USER"

(* ---------------- passwords (bcrypt) ---------------- *)
Plain(s) == [plain |-> s]

\* the value bcrypt.gensalt() may return in change_password
Salts == {"salt4", "salt5"}

hash_password(password, salt) == [alg |-> "bcrypt", salt |-> salt, pw |-> password]

\* a checkpw that accepts every password
verify_password_any(password, password_hash) == password_hash.alg = "bcrypt"

\* bcrypt.checkpw(password, hash): re-hash the password with the hash's salt
verify_password(password, password_hash) ==
    hash_password(password, password_hash.salt) = password_hash

(* ---------------- the user table ---------------- *)
\* a row of the users table; email, created_at and modified_at, which no
\* method below reads, are left out
MkUser(uid, hash, role, speaker) ==
    [user_id |-> uid, username |-> uid, password_hash |-> hash, role |-> role,
     speaker_id |-> speaker]

\* _create_default_users
default_users ==
    [u \in {"admin", "user1", "television"} |->
        CASE u = "admin" ->
               MkUser("admin", hash_password(Plain("admin123"), "salt1"), "UserRole.ADMIN", None)
          [] u = "user1" ->
               MkUser("user1", hash_password(Plain("user1pass"), "salt2"), "UserRole.USER", "user1")
          [] u = "television" ->
               MkUser("television", hash_password(Plain("tvpass123"), "salt3"), "UserRole.USER", "television")]

\* get_user: the row with this username, if any
has_user(U, username) == username \in DOMAIN U

get_user(U, username) == U[username]

\* get_user_by_id: the row with this user_id, if any
has_user_by_id(U, user_id) == \E n \in DOMAIN U : U[n].user_id = user_id

get_user_by_id(U, user_id) == U[CHOOSE n \in DOMAIN U : U[n].user_id = user_id]

(* ---------------- session data and its JSON text ---------------- *)
SessionKeys == {"user_id", "role", "speaker_id", "created_at", "expires_at", "ip", "last_refresh"}

\* a Python value json.dumps takes or json.loads returns: a dict over
\* SessionKeys (keys says which are present; int_keys are the keys it has
\* besides that are ints, not strings), an int, or None
PyDict(keys, user_id, role, speaker_id, created_at, expires_at, ip, last_refresh) ==
    [type |-> "dict", keys |-> keys, int_keys |-> {}, num |-> 0,
     user_id |-> user_id, role |-> role, speaker_id |-> speaker_id,
     created_at |-> created_at, expires_at |-> expires_at, ip |-> ip,
     last_refresh |-> last_refresh]

PyInt(n) == [PyDict({}, None, None, None, 0, 0, None, 0) EXCEPT !.type = "int", !.num = n]

PyNone == [PyDict({}, None, None, None, 0, 0, None, 0) EXCEPT !.type = "NoneType"]

\* `not value`
Falsy(v) ==
    CASE v.type = "dict" -> v.keys = {} /\ v.int_keys = {}
      [] v.type = "int" -> v.num = 0
      [] OTHER -> TRUE

\* value[key] raises (KeyError on a dict without the key, TypeError otherwise)
SubscriptRaises(v, key) == v.type # "dict" \/ key \notin v.keys

\* a str | None field in JSON: None is written null
JsonStr(x) == [null |-> x = None, str |-> IF x = None THEN "" ELSE x]

\* a reader that returns the empty string for null
PyStr_empty(j) == j.str

PyStr(j) == IF j.null THEN None ELSE j.str

\* json.dumps / json.loads on the values above; the keys of a JSON object
\* are strings, json.dumps writes an int key as its decimal string
json_dumps(v) ==
    [type |-> CASE v.type = "dict" -> "object" [] v.type = "int" -> "number" [] OTHER -> "null",
     keys |-> v.keys \cup {ToString(k) : k \in v.int_keys}, num |-> v.num,
     user_id |-> JsonStr(v.user_id), role |-> JsonStr(v.role),
     speaker_id |-> JsonStr(v.speaker_id),
     created_at |-> v.created_at, expires_at |-> v.expires_at,
     ip |-> JsonStr(v.ip), last_refresh |-> v.last_refresh]

json_loads(j) ==
    [type |-> CASE j.type = "object" -> "dict" [] j.type = "number" -> "int" [] OTHER -> "NoneType",
     keys |-> j.keys, int_keys |-> {}, num |-> j.num,
     user_id |-> PyStr(j.user_id), role |-> PyStr(j.role),
     speaker_id |-> PyStr(j.speaker_id),
     created_at |-> j.created_at, expires_at |-> j.expires_at,
     ip |-> PyStr(j.ip), last_refresh |-> j.last_refresh]

(* ---------------- SessionEncryption ---------------- *)
\* the manager's 32-byte key, and some other key
secret_key == "key"

other_key == "other key"

\* a token string: b64 says whether it base64-decodes to IV + whole padded
\* blocks; key, iv and text are what the ciphertext was produced from
Token(b64, key, iv, text) == [b64 |-> b64, key |-> key, iv |-> iv, text |-> text]

\* encryption under one fixed IV
encrypt_fixed_iv(data, iv) == Token(TRUE, secret_key, 0, json_dumps(data))

encrypt(data, iv) == Token(TRUE, secret_key, iv, json_dumps(data))

\* any failure (base64, padding under the wrong key, JSON) returns None
decrypt(token) ==
    IF token.b64 /\ token.key = secret_key THEN json_loads(token.text) ELSE PyNone

(* ---------------- the Session dataclass and the cache ---------------- *)
Session(session_token, user_id, role, speaker_id, created_at, expires_at, ip_address, last_refresh) ==
    [session_token |-> session_token, user_id |-> user_id, role |-> role,
     speaker_id |-> speaker_id, created_at |-> created_at, expires_at |-> expires_at,
     ip_address |-> ip_address, last_refresh |-> last_refresh]

\* self.sessions[token] = session
Put(S, token, session) ==
    [k \in DOMAIN S \cup {token} |-> IF k = token THEN session ELSE S[k]]

\* del self.sessions[token]
Del(S, token) == [k \in DOMAIN S \ {token} |-> S[k]]

\* what a method hands back: the cache it leaves, what it returns (out is
\* the kind of value: "token", "session", "None", "True", "False", "count",
\* "dict", or "raise" for an exception that leaves the method), and the
\* branch it took
NoToken == Token(FALSE, "no token", 0, json_dumps(PyNone))

Result(S, out, token, n, path) ==
    [sessions |-> S, out |-> out, token |-> token, n |-> n, path |-> path, via |-> ""]

\* a Result of a method that called validate_session first: via is the
\* branch validate_session took
Via(v, r) == [r EXCEPT !.via = v.path]

(* ---------------- AuthManager.authenticate ---------------- *)
\* session data that expires after refresh_interval instead of session_duration
session_data_short(user, ip_address, t) ==
    PyDict(SessionKeys, user.user_id, RoleValue(user.role), user.speaker_id,
           t, t + refresh_interval, ip_address, t)

\* lines 305-315: the session data of a new session
session_data_of(user, ip_address, t) ==
    PyDict(SessionKeys, user.user_id, RoleValue(user.role), user.speaker_id,
           t, t + session_duration, ip_address, t)

\* a stored Session that forgets the caller's ip_address
new_session_no_ip(session_token, user, session_data, ip_address, t) ==
    Session(session_token, user.user_id, user.role, user.speaker_id,
            t, session_data.expires_at, None, t)

\* lines 321-330: the Session stored for a new token
new_session(session_token, user, session_data, ip_address, t) ==
    Session(session_token, user.user_id, user.role, user.speaker_id,
            t, session_data.expires_at, ip_address, t)

authenticate(U, S, username, password, ip_address, t, iv) ==
    IF ~has_user(U, username) THEN Result(S, "None", NoToken, 0, "no user")
    ELSE LET user == get_user(U, username) IN
      IF ~verify_password(password, user.password_hash)
      THEN Result(S, "None", NoToken, 0, "bad password")
      ELSE LET session_data == session_data_of(user, ip_address, t)
               session_token == encrypt(session_data, iv)
               session == new_session(session_token, user, session_data, ip_address, t)
           IN Result(Put(S, session_token, session), "token", session_token, 0, "issued")

(* ---------------- AuthManager.validate_session ---------------- *)
\* an expiry test that already rejects at t = expires_at
Expired_at_boundary(t, expires_at) == t >= expires_at

\* `time.time() > expires_at`
Expired(t, expires_at) == t > expires_at

\* lines 358-367: the Session rebuilt from decrypted session data;
\* .get() supplies the defaults of the optional keys
reconstruct(session_token, d) ==
    Session(session_token, d.user_id, UserRoleOf(d.role),
            IF "speaker_id" \in d.keys THEN d.speaker_id ELSE None,
            d.created_at, d.expires_at,
            IF "ip" \in d.keys THEN d.ip ELSE None,
            IF "last_refresh" \in d.keys THEN d.last_refresh ELSE d.created_at)

\* lines 358-367 raise: a missing user_id, role or created_at (KeyError), or
\* a role that is no UserRole value (ValueError)
ReconstructRaises(d) ==
    \/ SubscriptRaises(d, "user_id")
    \/ SubscriptRaises(d, "role")
    \/ ~IsRoleValue(d.role)
    \/ SubscriptRaises(d, "created_at")

\* a validate_session that trusts the cache alone: an absent token is invalid
validate_session_cache_only(S, session_token, t) ==
    IF session_token \in DOMAIN S
    THEN IF Expired(t, S[session_token].expires_at)
         THEN Result(Del(S, session_token), "None", NoToken, 0, "cache expired")
         ELSE Result(S, "session", session_token, 0, "cache")
    ELSE Result(S, "None", NoToken, 0, "decrypt failed")

\* a validate_session with sliding expiry: a cached session that is still
\* valid gets a new expires_at
validate_session_sliding(S, session_token, t) ==
    IF session_token \in DOMAIN S
    THEN IF Expired(t, S[session_token].expires_at)
         THEN Result(Del(S, session_token), "None", NoToken, 0, "cache expired")
         ELSE Result([S EXCEPT ![session_token].expires_at = t + session_duration],
                     "session", session_token, 0, "cache")
    ELSE LET session_data == decrypt(session_token) IN
      IF Falsy(session_data) THEN Result(S, "None", NoToken, 0, "decrypt failed")
      ELSE IF SubscriptRaises(session_data, "expires_at")
        THEN Result(S, "raise", NoToken, 0, "decrypt")
      ELSE IF Expired(t, session_data.expires_at)
        THEN Result(S, "None", NoToken, 0, "decrypt expired")
      ELSE IF ReconstructRaises(session_data)
        THEN Result(S, "raise", NoToken, 0, "decrypt")
      ELSE Result(Put(S, session_token, reconstruct(session_token, session_data)),
                  "session", session_token, 0, "decrypt")

validate_session(S, session_token, t) ==
    IF session_token \in DOMAIN S
    THEN IF Expired(t, S[session_token].expires_at)
         THEN Result(Del(S, session_token), "None", NoToken, 0, "cache expired")
         ELSE Result(S, "session", session_token, 0, "cache")
    ELSE LET session_data == decrypt(session_token) IN
      IF Falsy(session_data) THEN Result(S, "None", NoToken, 0, "decrypt failed")
      ELSE IF SubscriptRaises(session_data, "expires_at")
        THEN Result(S, "raise", NoToken, 0, "decrypt")
      ELSE IF Expired(t, session_data.expires_at)
        THEN Result(S, "None", NoToken, 0, "decrypt expired")
      ELSE IF ReconstructRaises(session_data)
        THEN Result(S, "raise", NoToken, 0, "decrypt")
      ELSE Result(Put(S, session_token, reconstruct(session_token, session_data)),
                  "session", session_token, 0, "decrypt")

(* ---------------- AuthManager.logout ---------------- *)
\* a logout that reports success whether or not the token was cached
logout_always_true(S, session_token) ==
    Result(Del(S, session_token), "True", NoToken, 0, "removed")

\* a logout that ends every session of the token's user
logout_user(S, session_token) ==
    IF session_token \in DOMAIN S
    THEN Result([k \in {x \in DOMAIN S : S[x].user_id # S[session_token].user_id} |-> S[k]],
                "True", NoToken, 0, "removed")
    ELSE Result(S, "False", NoToken, 0, "absent")

logout(S, session_token) ==
    IF session_token \in DOMAIN S
    THEN Result(Del(S, session_token), "True", NoToken, 0, "removed")
    ELSE Result(S, "False", NoToken, 0, "absent")

(* ---------------- AuthManager.refresh_token ---------------- *)
\* a refresh window one tick too short
NoRefreshNeeded_short(t, last_refresh) == t - last_refresh < refresh_interval - 1

\* `now - session.last_refresh < self.refresh_interval`
NoRefreshNeeded(t, last_refresh) == t - last_refresh < refresh_interval

\* `ip_address or session.ip_address`
IpOr(ip_address, session_ip) == IF ip_address = None THEN session_ip ELSE ip_address

\* a refresh that issues the new session without logging the old token out
refresh_token_keep_old(U, S, session_token, ip_address, t, iv) ==
    LET v == validate_session(S, session_token, t) IN
      IF v.out # "session" THEN Via(v, Result(v.sessions, v.out, NoToken, 0, "invalid"))
      ELSE LET session == v.sessions[session_token] IN
        IF NoRefreshNeeded(t, session.last_refresh)
        THEN Via(v, Result(v.sessions, "token", session_token, 0, "same"))
        ELSE IF ~has_user_by_id(U, session.user_id)
          THEN Via(v, Result(v.sessions, "None", NoToken, 0, "no user"))
        ELSE LET user == get_user_by_id(U, session.user_id)
                 new == authenticate(U, v.sessions, user.username, user.password_hash,
                                     IpOr(ip_address, session.ip_address), t, iv)
             IN Via(v, Result(new.sessions, new.out, new.token, 0, "rotate"))

refresh_token(U, S, session_token, ip_address, t, iv) ==
    LET v == validate_session(S, session_token, t) IN
    Via(v,
      IF v.out = "raise" THEN Result(v.sessions, "raise", NoToken, 0, "validate")
      ELSE IF v.out = "None" THEN Result(v.sessions, "None", NoToken, 0, "invalid")
      ELSE LET session == v.sessions[session_token] IN
        IF NoRefreshNeeded(t, session.last_refresh)
        THEN Result(v.sessions, "token", session_token, 0, "same")
        ELSE IF ~has_user_by_id(U, session.user_id)
          THEN Result(v.sessions, "None", NoToken, 0, "no user")
        ELSE LET user == get_user_by_id(U, session.user_id)
                 out == logout(v.sessions, session_token)
                 new == authenticate(U, out.sessions, user.username, user.password_hash,
                                     IpOr(ip_address, session.ip_address), t, iv)
             IN Result(new.sessions, new.out, new.token, 0, "rotate"))

(* ---------------- AuthManager.change_password ---------------- *)
\* a password change that does not ask for the old password
change_password_unverified(U, username, old_password, new_password, salt) ==
    IF ~has_user(U, username) THEN [users |-> U, out |-> "False"]
    ELSE [users |-> [U EXCEPT ![username].password_hash = hash_password(new_password, salt)],
          out |-> "True"]

\* the users table the call leaves, and what it returns
change_password(U, username, old_password, new_password, salt) ==
    IF ~has_user(U, username) THEN [users |-> U, out |-> "False"]
    ELSE LET user == get_user(U, username) IN
      IF ~verify_password(old_password, user.password_hash)
      THEN [users |-> U, out |-> "False"]
      ELSE [users |-> [U EXCEPT ![username].password_hash = hash_password(new_password, salt)],
            out |-> "True"]

(* ---------------- AuthManager.check_permission ---------------- *)
\* role levels that do not rank ADMIN above USER
role_level_unranked(role, default) ==
    CASE role = "UserRole.USER" -> 1
      [] role = "UserRole.ADMIN" -> 1
      [] OTHER -> default

\* role_levels.get(role, default)
role_level(role, default) ==
    CASE role = "UserRole.USER" -> 1
      [] role = "UserRole.ADMIN" -> 2
      [] OTHER -> default

\* a permission check that ends the session it denies
check_permission_evicts(S, session_token, required_role, t) ==
    LET v == validate_session(S, session_token, t) IN
      IF v.out = "session"
         /\ role_level(v.sessions[session_token].role, 0) < role_level(required_role, 999)
      THEN Via(v, Result(Del(v.sessions, session_token), "False", NoToken, 0, "denied"))
      ELSE Via(v, Result(v.sessions, IF v.out = "session" THEN "True" ELSE "False",
                         NoToken, 0, IF v.out = "session" THEN "granted" ELSE "invalid"))

check_permission(S, session_token, required_role, t) ==
    LET v == validate_session(S, session_token, t) IN
    Via(v,
      IF v.out = "raise" THEN Result(v.sessions, "raise", NoToken, 0, "validate")
      ELSE IF v.out = "None" THEN Result(v.sessions, "False", NoToken, 0, "invalid")
      ELSE LET session == v.sessions[session_token] IN
        IF role_level(session.role, 0) >= role_level(required_role, 999)
        THEN Result(v.sessions, "True", NoToken, 0, "granted")
        ELSE Result(v.sessions, "False", NoToken, 0, "denied"))

(* ---------------- AuthManager.get_user_info ---------------- *)
get_user_info(U, S, session_token, t) ==
    LET v == validate_session(S, session_token, t) IN
    Via(v,
      IF v.out = "raise" THEN Result(v.sessions, "raise", NoToken, 0, "validate")
      ELSE IF v.out = "None" THEN Result(v.sessions, "None", NoToken, 0, "invalid")
      ELSE IF ~has_user_by_id(U, v.sessions[session_token].user_id)
        THEN Result(v.sessions, "None", NoToken, 0, "no user")
      ELSE Result(v.sessions, "dict", NoToken, 0, "info"))

(* ---------------- AuthManager.cleanup_expired_sessions ---------------- *)
\* a sweep that also removes the sessions expiring exactly now
SweepExpired_at_boundary(t, expires_at) == expires_at <= t

\* `session.expires_at < now`
SweepExpired(t, expires_at) == expires_at < t

cleanup_expired_sessions(S, t) ==
    LET expired == {token \in DOMAIN S : SweepExpired(t, S[token].expires_at)} IN
    Result([k \in DOMAIN S \ expired |-> S[k]], "count", NoToken, Cardinality(expired), "sweep")

(* ---------------- what callers present ---------------- *)
Usernames == {"admin", "user1", "nonexistent"}

Passwords == {Plain("admin123"), Plain("user1pass"), Plain("wrong")}

\* the ip_address argument of authenticate, and of refresh_token
LoginIPs == {"10.0.0.1"}

IPs == {None, "10.0.0.2"}

\* the new_password argument of change_password
NewPasswords == {Plain("user1pass")}

\* the data argument of encrypt: the session data authenticate builds for
\* each user at the first and the last instant, the same without the key
\* "ip", with an int key besides, and as an empty dict
SessionPayloads ==
    {session_data_of(default_users[u], ip, t) :
       u \in DOMAIN default_users, ip \in LoginIPs, t \in {0, MaxTime}}

Payloads ==
    SessionPayloads
      \cup {[d EXCEPT !.keys = SessionKeys \ {"ip"}] : d \in SessionPayloads}
      \cup {[d EXCEPT !.int_keys = {1}] : d \in SessionPayloads}
      \cup {[d EXCEPT !.keys = {}] : d \in SessionPayloads}

\* the required_role argument of check_permission: the two members of
\* UserRole and, the parameter being unchecked, a value that is neither
RequiredRoles == UserRole \cup {"guest"}

(* ---------------- tokens no authenticate call returned ---------------- *)
\* session data of user "ghost" (no such row), without the optional keys
GhostData ==
    PyDict({"user_id", "role", "created_at", "expires_at"},
           "ghost", "user", None, 0, session_duration, None, 0)

WholeData == PyDict(SessionKeys, "admin", "admin", None, 0, session_duration, None, 0)

\* a string that is not base64 of an IV and whole cipher blocks
BadBase64 == Token(FALSE, other_key, 0, json_dumps(PyNone))

\* a token made under another key
WrongKey == Token(TRUE, other_key, 0, json_dumps(WholeData))

\* tokens that decrypt under the manager's key to JSON other than the session
\* data authenticate writes: AES-CBC carries no integrity tag, and flipping
\* bits of the IV rewrites the first plaintext block
Tampered(d) == Token(TRUE, secret_key, 0, json_dumps(d))

Ghost == Tampered(GhostData)

NotAnObject == Tampered(PyInt(5))

EmptyObject == Tampered([WholeData EXCEPT !.keys = {}])

NoExpiresAt == Tampered([WholeData EXCEPT !.keys = SessionKeys \ {"expires_at"}])

NoUserId == Tampered([WholeData EXCEPT !.keys = SessionKeys \ {"user_id"}])

NoCreatedAt == Tampered([WholeData EXCEPT !.keys = SessionKeys \ {"created_at"}])

BadRole == Tampered([WholeData EXCEPT !.role = "root"])

ForgedTokens ==
    {BadBase64, WrongKey, Ghost, NotAnObject, EmptyObject, NoExpiresAt, NoUserId,
     NoCreatedAt, BadRole}

(* ---------------- state ---------------- *)
VARIABLES
    now,        \* time.time()
    users,      \* the users table, by username
    sessions,   \* self.sessions: token -> Session
    issued,     \* the tokens encrypt has produced so far
    last,       \* the last call: its name, arguments and result
    key_len,    \* len(self.encryptor.key); 0 while no manager is constructed
    callers     \* threads inside a method: the statement each one is at

vars == <<now, users, sessions, issued, last, key_len, callers>>

\* a call as `last` records it: the method, its token, username, password
\* and ip_address arguments, and from its Result what it returned (out,
\* rtoken, n), the branch it took and the branch of the validate_session
\* call inside it (via); new_password is change_password's third argument,
\* required_role check_permission's second, data and rdata are the argument
\* of encrypt and the result of decrypt
NoPassword == Plain("")

Call(op, token, user, password, ip, r) ==
    [op |-> op, token |-> token, user |-> user, password |-> password, ip |-> ip,
     out |-> r.out, rtoken |-> r.token, n |-> r.n, path |-> r.path, via |-> r.via,
     new_password |-> NoPassword, required_role |-> "", data |-> PyNone,
     rdata |-> PyNone]

NoCall == Call("init", NoToken, "", NoPassword, None, Result(<< >>, "None", NoToken, 0, ""))

\* the key SessionEncryption.__init__ accepts is 32 bytes long
KeyLength == 32

\* the secret_key argument of the constructors, by its length: keys that
\* are empty, one byte short, right and one byte long, and no key (None)
NoKey == -1

SuppliedKeys == {NoKey, 0, KeyLength - 1, KeyLength, KeyLength + 1}

\* a codec that only refuses keys that are too short
SessionEncryption_init_long(secret_key_len) ==
    IF secret_key_len < KeyLength THEN [out |-> "raise", key_len |-> 0]
    ELSE [out |-> "None", key_len |-> secret_key_len]

\* SessionEncryption.__init__: ValueError unless the key has 32 bytes;
\* key_len is len(self.key) of the codec that comes into existence
SessionEncryption_init(secret_key_len) ==
    IF secret_key_len # KeyLength THEN [out |-> "raise", key_len |-> 0]
    ELSE [out |-> "None", key_len |-> secret_key_len]

\* AuthManager.__init__: without a key secrets.token_bytes(32) makes one
AuthManager_init(secret_key_len) ==
    SessionEncryption_init(IF secret_key_len = NoKey THEN KeyLength ELSE secret_key_len)

\* threads calling into one manager. A thread is outside every method
\* (idle), or past the check of a method and before its `del` statement:
\* at line 344 of validate_session or line 402 of logout with the key in
\* token, in the loop of cleanup_expired_sessions (line 466) with the keys
\* still to delete in todo, or dead of the KeyError a `del` of an absent key
\* raises. raced records that another thread removed a key this thread had
\* checked and not yet deleted.
Threads == {1, 2}

Idle == [pc |-> "idle", token |-> NoToken, todo |-> {}, raced |-> FALSE]

NoCallers == [c \in Threads |-> Idle]

\* a membership test that finds every key
InCache_unchecked(S, token) == TRUE

\* `session_token in self.sessions`
InCache(S, token) == token \in DOMAIN S

\* thread c ran `del self.sessions[token]`: the threads, after it
Deleted(C, S, c, token) ==
    [d \in Threads |->
       IF d = c THEN C[c]
       ELSE IF C[d].pc # "idle" /\ token \in {C[d].token} \cup C[d].todo
         THEN [C[d] EXCEPT !.raced = TRUE]
       ELSE C[d]]

\* secrets.token_bytes(16): an IV no earlier token carries
FreshIv == Cardinality(issued) + 1

\* the cache is empty and the default users exist after __init__
Init ==
    /\ now = 0
    /\ users = default_users
    /\ sessions = << >>
    /\ issued = {}
    /\ last = NoCall
    /\ key_len = KeyLength
    /\ callers = NoCallers

Issue(r) == IF r.out = "token" /\ r.token \notin issued THEN issued \cup {r.token} ELSE issued

AuthenticateAs(Names, Words) ==
    \E username \in Names, password \in Words, ip \in LoginIPs :
      LET r == authenticate(users, sessions, username, password, ip, now, FreshIv) IN
        /\ r.out = "token" => Cardinality(issued) < MaxIssued
        /\ sessions' = r.sessions
        /\ issued' = Issue(r)
        /\ last' = Call("authenticate", NoToken, username, password, ip, r)
        /\ UNCHANGED <<key_len, callers, now, users>>

ValidateSession(Tokens) ==
    \E token \in Tokens :
      LET r == validate_session(sessions, token, now) IN
        /\ sessions' = r.sessions
        /\ last' = Call("validate_session", token, "", NoPassword, None, r)
        /\ UNCHANGED <<key_len, callers, now, users, issued>>

RefreshToken(Tokens) ==
    \E token \in Tokens, ip \in IPs :
      LET r == refresh_token(users, sessions, token, ip, now, FreshIv) IN
        /\ r.out = "token" /\ r.token \notin issued => Cardinality(issued) < MaxIssued
        /\ sessions' = r.sessions
        /\ issued' = Issue(r)
        /\ last' = Call("refresh_token", token, "", NoPassword, None, r)
        /\ UNCHANGED <<key_len, callers, now, users>>

Logout(Tokens) ==
    \E token \in Tokens :
      LET r == logout(sessions, token) IN
        /\ sessions' = r.sessions
        /\ last' = Call("logout", token, "", NoPassword, None, r)
        /\ UNCHANGED <<key_len, callers, now, users, issued>>

CleanupExpiredSessions ==
    LET r == cleanup_expired_sessions(sessions, now) IN
      /\ sessions' = r.sessions
      /\ last' = Call("cleanup_expired_sessions", NoToken, "", NoPassword, None, r)
      /\ UNCHANGED <<key_len, callers, now, users, issued>>

ChangePassword(Names, NewSalts) ==
    \E username \in Names, old_password \in Passwords, new_password \in NewPasswords,
       salt \in NewSalts :
      LET r == change_password(users, username, old_password, new_password, salt) IN
        /\ users' = r.users
        /\ last' = [Call("change_password", NoToken, username, old_password, None,
                         Result(sessions, r.out, NoToken, 0, ""))
                      EXCEPT !.new_password = new_password]
        /\ UNCHANGED <<key_len, callers, now, sessions, issued>>

CheckPermission(Tokens, Roles) ==
    \E token \in Tokens, required_role \in Roles :
      LET r == check_permission(sessions, token, required_role, now) IN
        /\ sessions' = r.sessions
        /\ last' = [Call("check_permission", token, "", NoPassword, None, r)
                      EXCEPT !.required_role = required_role]
        /\ UNCHANGED <<key_len, callers, now, users, issued>>

GetUserInfo(Tokens) ==
    \E token \in Tokens :
      LET r == get_user_info(users, sessions, token, now) IN
        /\ sessions' = r.sessions
        /\ last' = Call("get_user_info", token, "", NoPassword, None, r)
        /\ UNCHANGED <<key_len, callers, now, users, issued>>

\* SessionEncryption.encrypt on some payload
Encrypt ==
    \E data \in Payloads :
      LET r == Result(sessions, "token", encrypt(data, FreshIv), 0, "") IN
        /\ Cardinality(issued) < MaxIssued
        /\ issued' = Issue(r)
        /\ last' = [Call("encrypt", NoToken, "", NoPassword, None, r) EXCEPT !.data = data]
        /\ UNCHANGED <<key_len, callers, now, users, sessions>>

\* SessionEncryption.decrypt on the token encrypt just returned
Decrypt ==
    /\ last.op = "encrypt"
    /\ LET data == decrypt(last.rtoken) IN
         last' = [Call("decrypt", last.rtoken, "", NoPassword, None,
                       Result(sessions, IF data = PyNone THEN "None" ELSE "dict", NoToken, 0, ""))
                    EXCEPT !.data = last.data, !.rdata = data]
    /\ UNCHANGED <<key_len, callers, now, users, sessions, issued>>

\* AuthManager(secret_key=...) where no manager exists: the key is checked
\* before the cache and the users table are set up
Construct ==
    \E supplied \in SuppliedKeys :
      LET r == AuthManager_init(supplied) IN
        /\ key_len = 0
        /\ key_len' = r.key_len
        /\ users' = IF r.out = "raise" THEN users ELSE default_users
        /\ sessions' = IF r.out = "raise" THEN sessions ELSE << >>
        /\ last' = Call("__init__", NoToken, "", NoPassword, None,
                        Result(sessions', r.out, NoToken, supplied, ""))
        /\ UNCHANGED <<callers, now, issued>>

\* the statements of the three methods that delete, one thread at a time
Step == [NoCall EXCEPT !.op = "step"]

\* validate_session, lines 340-343 and, for a token not cached, 349-367
ValidateCheck(c) ==
    \E token \in issued :
      /\ callers[c].pc = "idle"
      /\ IF token \in DOMAIN sessions /\ Expired(now, sessions[token].expires_at)
         THEN /\ callers' = [callers EXCEPT ![c] = [Idle EXCEPT !.pc = "validate_session 344",
                                                                !.token = token]]
              /\ UNCHANGED sessions
         ELSE /\ sessions' = validate_session(sessions, token, now).sessions
              /\ UNCHANGED callers
      /\ last' = Step
      /\ UNCHANGED <<key_len, now, users, issued>>

\* logout, line 401
LogoutCheck(c) ==
    \E token \in issued :
      /\ callers[c].pc = "idle"
      /\ InCache(sessions, token)
      /\ callers' = [callers EXCEPT ![c] = [Idle EXCEPT !.pc = "logout 402", !.token = token]]
      /\ last' = Step
      /\ UNCHANGED <<key_len, now, users, sessions, issued>>

\* cleanup_expired_sessions, lines 463-464
CleanupScan(c) ==
    LET expired == {token \in DOMAIN sessions : SweepExpired(now, sessions[token].expires_at)} IN
      /\ callers[c].pc = "idle"
      /\ expired # {}
      /\ callers' = [callers EXCEPT ![c] = [Idle EXCEPT !.pc = "cleanup_expired_sessions 466",
                                                        !.todo = expired]]
      /\ last' = Step
      /\ UNCHANGED <<key_len, now, users, sessions, issued>>

\* `del self.sessions[token]` at lines 344, 402 and 466: KeyError when the
\* key is absent
DelStatement(c) ==
    \E token \in {callers[c].token} \cup callers[c].todo :
      /\ callers[c].pc \in {"validate_session 344", "logout 402", "cleanup_expired_sessions 466"}
      /\ token # NoToken
      /\ IF token \in DOMAIN sessions
         THEN /\ sessions' = Del(sessions, token)
              /\ callers' =
                   [Deleted(callers, sessions, c, token) EXCEPT
                      ![c] = IF callers[c].todo \ {token} = {} THEN Idle
                             ELSE [callers[c] EXCEPT !.todo = @ \ {token}]]
         ELSE /\ callers' = [callers EXCEPT ![c].pc = "KeyError"]
              /\ UNCHANGED sessions
      /\ last' = Step
      /\ UNCHANGED <<key_len, now, users, issued>>

Authenticate == AuthenticateAs(Usernames, Passwords)

\* the clock advances between calls
Tick ==
    /\ now < MaxTime
    /\ now' = now + 1
    /\ last' = [NoCall EXCEPT !.op = "tick"]
    /\ UNCHANGED <<key_len, callers, users, sessions, issued>>

\* the session lifecycle, callers presenting the tokens they were given
Next ==
    \/ Authenticate
    \/ ValidateSession(issued)
    \/ RefreshToken(issued)
    \/ Logout(issued)
    \/ CleanupExpiredSessions
    \/ Tick

Spec == Init /\ [][Next]_vars

\* the session lifecycle with callers that also present forged tokens
NextForged ==
    \/ Authenticate
    \/ ValidateSession(issued \cup ForgedTokens)
    \/ RefreshToken(issued \cup {Ghost, NoUserId})
    \/ Logout(issued \cup {Ghost, BadBase64})
    \/ CleanupExpiredSessions
    \/ Tick

SpecForged == Init /\ [][NextForged]_vars

\* authorization: permission checks on issued tokens, cached or logged out,
\* and on a string that is no token
NextAccess ==
    \/ Authenticate
    \/ CheckPermission(issued \cup {BadBase64}, RequiredRoles)
    \/ Logout(issued)
    \/ Tick

SpecAccess == Init /\ [][NextAccess]_vars

\* passwords: logins and password changes as time passes
NextPassword ==
    \/ Authenticate
    \/ ChangePassword(Usernames, {"salt4"})
    \/ Tick

SpecPassword == Init /\ [][NextPassword]_vars

\* every method of the manager, called by admin: the logins, the tokens
\* and the password changes are admin's, the permission asked for is ADMIN
NextAll ==
    \/ AuthenticateAs({"admin"}, {Plain("admin123"), Plain("user1pass")})
    \/ ValidateSession(issued)
    \/ RefreshToken(issued)
    \/ Logout(issued)
    \/ ChangePassword({"admin"}, {"salt4"})
    \/ CheckPermission(issued, {"UserRole.ADMIN"})
    \/ GetUserInfo(issued)
    \/ CleanupExpiredSessions
    \/ Tick

SpecAll == Init /\ [][NextAll]_vars

\* the token codec alone: encrypt a payload, decrypt the token
NextCodec ==
    \/ Encrypt
    \/ Decrypt

SpecCodec == Init /\ [][NextCodec]_vars

\* from before the manager exists: construction attempts, then logins and
\* validation on the manager that came into existence
InitNoManager ==
    /\ now = 0
    /\ users = << >>
    /\ sessions = << >>
    /\ issued = {}
    /\ last = NoCall
    /\ key_len = 0
    /\ callers = NoCallers

NextConstruct ==
    \/ Construct
    \/ key_len # 0 /\ Authenticate
    \/ key_len # 0 /\ ValidateSession(issued)
    \/ Tick

SpecConstruct == InitNoManager /\ [][NextConstruct]_vars

\* two threads on one manager without a lock, interleaved statement by
\* statement in the methods that delete from the cache, from the moment
\* admin and user1 have logged in
InitThreads ==
    \E ip \in LoginIPs :
      LET a == authenticate(default_users, << >>, "admin", Plain("admin123"), ip, 0, 1)
          b == authenticate(default_users, a.sessions, "user1", Plain("user1pass"), ip, 0, 2)
      IN /\ now = 0
         /\ users = default_users
         /\ sessions = b.sessions
         /\ issued = {a.token, b.token}
         /\ last = Call("authenticate", NoToken, "user1", Plain("user1pass"), ip, b)
         /\ key_len = KeyLength
         /\ callers = NoCallers

NextThreads ==
    \/ \E c \in Threads : ValidateCheck(c)
    \/ \E c \in Threads : LogoutCheck(c)
    \/ \E c \in Threads : CleanupScan(c)
    \/ \E c \in Threads : DelStatement(c)
    \/ Tick

SpecThreads == InitThreads /\ [][NextThreads]_vars

(* ======================= properties ======================= *)
\* the session data a token issued by authenticate carries
Data(token) == decrypt(token)

\* the token is within its validity window at the current time
Unexpired(token) == now <= Data(token).expires_at

(* C1: refresh rotation.  When refresh_token is given an issued, unexpired  *)
(* token whose user exists and whose last_refresh is at least               *)
(* refresh_interval old, it returns a token different from its input that   *)
(* is cached afterwards, bound to the same user_id, role and speaker_id,    *)
(* with expires_at = now + session_duration.                                *)
C1_RefreshRotates ==
    (/\ last.op = "refresh_token"
     /\ last.token \in issued
     /\ Unexpired(last.token)
     /\ has_user_by_id(users, Data(last.token).user_id)
     /\ now - Data(last.token).last_refresh >= refresh_interval)
    => /\ last.out = "token"
       /\ last.rtoken # last.token
       /\ last.rtoken \in DOMAIN sessions
       /\ sessions[last.rtoken].user_id = Data(last.token).user_id
       /\ RoleValue(sessions[last.rtoken].role) = Data(last.token).role
       /\ sessions[last.rtoken].speaker_id = Data(last.token).speaker_id
       /\ sessions[last.rtoken].expires_at = now + session_duration

\* an issued, unexpired token whose last refresh is less than refresh_interval old
C2_InWindow(token) ==
    /\ token \in issued
    /\ Unexpired(token)
    /\ now - Data(token).last_refresh < refresh_interval

(* C2: refresh idempotence within the window.  When refresh_token is given  *)
(* an issued, unexpired token with now - last_refresh < refresh_interval,   *)
(* it returns exactly that token, the token is cached afterwards with the   *)
(* last_refresh, created_at and expires_at it carries, and a cache entry    *)
(* that was there before the call is left as it was; a call that follows    *)
(* another such call on the same token returns the same token again.        *)
C2_RefreshIdempotent ==
    [][(last'.op = "refresh_token" /\ C2_InWindow(last'.token))
       => /\ last'.out = "token"
          /\ last'.rtoken = last'.token
          /\ last'.token \in DOMAIN sessions'
          /\ sessions'[last'.token].last_refresh = Data(last'.token).last_refresh
          /\ sessions'[last'.token].created_at = Data(last'.token).created_at
          /\ sessions'[last'.token].expires_at = Data(last'.token).expires_at
          /\ (last'.token \in DOMAIN sessions => sessions'[last'.token] = sessions[last'.token])
          /\ issued' = issued]_vars

\* a refresh inside the window, one tick before the window closes
C2_Witness ==
    /\ last.op = "refresh_token"
    /\ C2_InWindow(last.token)
    /\ now - Data(last.token).last_refresh = refresh_interval - 1
    /\ last.rtoken = last.token

(* C3: expiry.  validate_session of an issued token returns a session      *)
(* exactly when now <= expires_at and None exactly when expires_at < now,   *)
(* whether the token was cached or had to be decrypted; after a rejection   *)
(* of an expired token the token is not in the cache.                       *)
C3_Expiry ==
    (last.op = "validate_session" /\ last.token \in issued)
    => /\ (last.out = "session") <=> (now <= Data(last.token).expires_at)
       /\ (last.out = "None") <=> (Data(last.token).expires_at < now)
       /\ (last.out = "session") <=> (last.path \in {"cache", "decrypt"})
       /\ (last.out = "None") <=> (last.path \in {"cache expired", "decrypt expired"})
       /\ Data(last.token).expires_at < now => last.token \notin DOMAIN sessions

\* a token one tick past its expiry, rejected after decryption
C3_Witness ==
    /\ last.op = "validate_session"
    /\ last.path = "decrypt expired"
    /\ Data(last.token).expires_at = now - 1
    /\ last.out = "None"

\* a cached token past its expiry, rejected and pruned
C3_WitnessCached ==
    /\ last.op = "validate_session"
    /\ last.path = "cache expired"
    /\ last.token \notin DOMAIN sessions

\* a token accepted at the last instant of its window
C3_WitnessBoundary ==
    /\ last.op = "validate_session"
    /\ last.out = "session"
    /\ Data(last.token).expires_at = now

\* validate_session accepts every issued token that has not expired
C4_Acceptable ==
    \A token \in issued :
        Unexpired(token) => validate_session(sessions, token, now).out = "session"

C5_Agreement ==
    /\ \A k \in DOMAIN sessions :
         /\ sessions[k].session_token = k
         /\ sessions[k] = reconstruct(k, decrypt(k))
    /\ \A token \in issued :
         LET cached == validate_session(sessions, token, now)
             fresh == validate_session(Del(sessions, token), token, now)
         IN /\ cached.out = fresh.out
            /\ cached.out = "session" => cached.sessions[token] = fresh.sessions[token]

\* the cache holds an entry stored by authenticate and one rebuilt by decryption
C5_Witness ==
    /\ Cardinality(DOMAIN sessions) = 2
    /\ last.op = "validate_session"
    /\ last.path = "decrypt"
    /\ last.out = "session"

\* the username has a row whose stored hash was made from this password
RightPassword(username, password) ==
    /\ username \in DOMAIN users
    /\ users[username].password_hash.pw = password

C6_Verifies == RightPassword(last.user, last.password)

(* C6: authenticate success.  When the username exists and the password    *)
(* verifies, authenticate returns a token; the cache then holds under that  *)
(* token a session with the user's user_id, role and speaker_id,            *)
(* created_at = last_refresh = now, expires_at = now + session_duration and *)
(* the given ip, and the token decrypts to the same data; for the default   *)
(* admin account the role is ADMIN and the speaker_id None.                 *)
C6_AuthenticateSuccess ==
    (last.op = "authenticate" /\ C6_Verifies)
    => LET user == get_user(users, last.user) IN
       /\ last.out = "token"
       /\ last.rtoken \in DOMAIN sessions
       /\ sessions[last.rtoken] =
            Session(last.rtoken, user.user_id, user.role, user.speaker_id,
                    now, now + session_duration, last.ip, now)
       /\ decrypt(last.rtoken) =
            PyDict(SessionKeys, user.user_id, RoleValue(user.role), user.speaker_id,
                   now, now + session_duration, last.ip, now)
       /\ last.user = "admin" =>
            /\ sessions[last.rtoken].role = "UserRole.ADMIN"
            /\ sessions[last.rtoken].speaker_id = None

\* authenticate("admin", "admin123") succeeded
C6_Witness ==
    /\ last.op = "authenticate"
    /\ last.user = "admin"
    /\ last.password = Plain("admin123")
    /\ last.out = "token"
    /\ last.rtoken \in DOMAIN sessions

(* C7: authenticate failure.  For an unknown username and for a known       *)
(* username with a wrong password authenticate returns the same value,      *)
(* None, and leaves the session cache and the user table unchanged.         *)
C7_AuthenticateFailure ==
    [][(/\ last'.op = "authenticate"
        /\ ~RightPassword(last'.user, last'.password))
       => /\ last'.out = "None"
          /\ last'.rtoken = NoToken
          /\ last'.n = 0
          /\ sessions' = sessions
          /\ users' = users
          /\ issued' = issued]_vars

\* a wrong password for a known user, with a session in the cache
C7_Witness ==
    /\ last.op = "authenticate"
    /\ last.user = "admin"
    /\ last.password = Plain("wrong")
    /\ last.out = "None"
    /\ sessions # << >>

\* an unknown username, with a session in the cache
C7_WitnessUnknown ==
    /\ last.op = "authenticate"
    /\ last.user = "nonexistent"
    /\ last.out = "None"
    /\ sessions # << >>

(* C8: validate_session is total.  For every token presented, forged ones  *)
(* included (not base64, made under another key, or decrypting to JSON that *)
(* is no well-formed session data), validate_session returns a session or  *)
(* None and raises nothing; and when it returns None for a token that was   *)
(* not cached, the cache is unchanged.                                      *)
C8_ValidateTotal ==
    [][last'.op = "validate_session"
       => /\ last'.out \in {"session", "None"}
          /\ (last'.out = "None" /\ last'.token \notin DOMAIN sessions) => sessions' = sessions]_vars

(* C9: logout returns True exactly when the token was a key of the cache    *)
(* just before the call; afterwards the token is not in the cache; a logout *)
(* that directly follows a logout of the same token returns False.          *)
C9_Logout ==
    [][last'.op = "logout"
       => /\ last'.out \in {"True", "False"}
          /\ (last'.out = "True") <=> (last'.token \in DOMAIN sessions)
          /\ last'.token \notin DOMAIN sessions'
          /\ (last.op = "logout" /\ last.token = last'.token => last'.out = "False")]_vars

\* a logout that removed a cached token
C9_Witness ==
    /\ last.op = "logout"
    /\ last.out = "True"
    /\ last.token \in issued

(* C10: cleanup_expired_sessions removes exactly the cache entries with      *)
(* expires_at < now, returns how many it removed and leaves the others      *)
(* unchanged; afterwards no entry has expires_at < now; the entries removed *)
(* are those validate_session rejects as expired at the same instant.       *)
C10_Cleanup ==
    [][last'.op = "cleanup_expired_sessions"
       => /\ DOMAIN sessions' = {k \in DOMAIN sessions : ~(sessions[k].expires_at < now)}
          /\ \A k \in DOMAIN sessions' : sessions'[k] = sessions[k]
          /\ last'.out = "count"
          /\ last'.n = Cardinality(DOMAIN sessions \ DOMAIN sessions')
          /\ \A k \in DOMAIN sessions' : ~(sessions'[k].expires_at < now')
          /\ \A k \in DOMAIN sessions :
               (k \notin DOMAIN sessions')
                 <=> (validate_session(sessions, k, now).path = "cache expired")]_vars

\* a sweep that removed an entry and kept another
C10_Witness ==
    /\ last.op = "cleanup_expired_sessions"
    /\ last.n >= 1
    /\ sessions # << >>

\* ADMIN satisfies both roles, USER only USER, nothing satisfies another value
C11_Satisfies(role, required_role) ==
    \/ required_role = "UserRole.USER" /\ role \in {"UserRole.USER", "UserRole.ADMIN"}
    \/ required_role = "UserRole.ADMIN" /\ role = "UserRole.ADMIN"

\* C11: check_permission(token, required_role) returns True exactly when
\* validate_session(token) yields a session whose role is at least
\* required_role in the order USER < ADMIN; a token validate_session does
\* not accept and a required_role that is neither USER nor ADMIN are never
\* satisfied.
C11_Permission ==
    [][last'.op = "check_permission" =>
        LET v == validate_session(sessions, last'.token, now) IN
          (last'.out = "True") <=>
            /\ v.out = "session"
            /\ C11_Satisfies(v.sessions[last'.token].role, last'.required_role)]_vars

\* an ADMIN session was granted ADMIN
C11_Witness ==
    /\ last.op = "check_permission"
    /\ last.out = "True"
    /\ last.required_role = "UserRole.ADMIN"
    /\ last.token \in issued

\* a USER session was denied ADMIN and granted USER: two calls, so two
\* states; this one is the denial
C11_WitnessDenied ==
    /\ last.op = "check_permission"
    /\ last.path = "denied"
    /\ last.required_role = "UserRole.ADMIN"

\* C12 as claimed: check_permission has no side effects, the session cache
\* and the users table are after the call what they were before it, also
\* when the token is absent from the cache or cached but expired.
C12_NoSideEffects ==
    [][last'.op = "check_permission" => sessions' = sessions /\ users' = users]_vars

\* C12: check_permission leaves the users table alone and touches no cache
\* entry but the one of its token, and that one as validate_session does:
\* unchanged when it is cached and unexpired, removed when it is cached and
\* expired, inserted (as reconstructed from the token) when it is absent
\* and the token is valid, absent as before when the token is rejected.
C12_ValidateSideEffects ==
    [][last'.op = "check_permission" =>
        LET token == last'.token IN
          /\ users' = users
          /\ \A k \in (DOMAIN sessions \cup DOMAIN sessions') \ {token} :
                k \in DOMAIN sessions /\ k \in DOMAIN sessions' /\ sessions'[k] = sessions[k]
          /\ IF token \in DOMAIN sessions
             THEN IF now > sessions[token].expires_at
                  THEN token \notin DOMAIN sessions'
                  ELSE sessions' = sessions
             ELSE IF token \in issued /\ Unexpired(token)
                  THEN sessions' = Put(sessions, token, reconstruct(token, Data(token)))
                  ELSE sessions' = sessions]_vars

\* a permission check put a logged-out token back into the cache
C12_Witness ==
    /\ last.op = "check_permission"
    /\ last.via = "decrypt"
    /\ last.token \in DOMAIN sessions

\* a permission check removed a cached, expired token
C12_WitnessPruned ==
    /\ last.op = "check_permission"
    /\ last.via = "cache expired"
    /\ last.token \notin DOMAIN sessions

\* what the claim says of one change_password call, but for the login with
\* the old password afterwards
C13_Change ==
    LET username == last'.user
        old_password == last'.password
        new_password == last'.new_password
    IN /\ (last'.out = "True") <=> RightPassword(username, old_password)
       /\ last'.out = "False" => users' = users
       /\ last'.out = "True" =>
            /\ DOMAIN users' = DOMAIN users
            /\ \A u \in DOMAIN users \ {username} : users'[u] = users[u]
            /\ \E salt \in Salts :
                 users'[username] =
                   [users[username] EXCEPT !.password_hash = hash_password(new_password, salt)]
            /\ \A ip \in LoginIPs :
                 authenticate(users', sessions', username, new_password, ip, now', FreshIv').out
                   = "token"
       /\ sessions' = sessions
       /\ \A token \in issued :
            validate_session(sessions', token, now').out = validate_session(sessions, token, now).out

\* a login with the old password fails after a successful change
C13_OldFails ==
    last'.out = "True" =>
      \A ip \in LoginIPs :
        authenticate(users', sessions', last'.user, last'.password, ip, now', FreshIv').out = "None"

\* C13 as claimed: change_password returns True and replaces the stored hash
\* only when the user exists and old_password verifies, otherwise returns
\* False with the user record unchanged; it always leaves the cache
\* unchanged, so every token valid before is still accepted; afterwards
\* authenticate succeeds with the new password and fails with the old one.
C13_ChangePasswordAnyNew ==
    [][last'.op = "change_password" => C13_Change /\ C13_OldFails]_vars

\* C13: the same, the login with the old password failing afterwards when
\* the new password differs from the old one.
C13_ChangePassword ==
    [][last'.op = "change_password" =>
        C13_Change /\ (last'.new_password # last'.password => C13_OldFails)]_vars

\* a password was changed to a different one while a token of that user
\* was cached and valid
C13_Witness ==
    /\ last.op = "change_password"
    /\ last.out = "True"
    /\ last.new_password # last.password
    /\ \E token \in DOMAIN sessions :
         sessions[token].user_id = last.user /\ Unexpired(token)

\* a password change was refused for a wrong old password
C13_WitnessRefused ==
    /\ last.op = "change_password"
    /\ last.out = "False"
    /\ last.user \in DOMAIN users

C14_WitnessIntKey ==
    /\ last.op = "decrypt"
    /\ last.data.int_keys = {1}
    /\ last.rdata.int_keys = {}
    /\ "1" \in last.rdata.keys

\* C15: the token of a successful authenticate differs from every token
\* produced before, those encrypting the same session data (same user, same
\* instant) included, because encrypt draws a fresh IV; the call adds a
\* cache entry under it and keeps the entries of the earlier tokens.
C15_Freshness ==
    [][last'.op = "authenticate" /\ last'.out = "token" =>
        /\ last'.rtoken \notin issued
        /\ last'.rtoken \notin DOMAIN sessions
        /\ DOMAIN sessions' = DOMAIN sessions \cup {last'.rtoken}
        /\ Cardinality(DOMAIN sessions') = Cardinality(DOMAIN sessions) + 1
        /\ \A token \in issued :
             Data(token) = Data(last'.rtoken) => token.iv # last'.rtoken.iv]_vars

\* two logins of one user at one instant hold two cached tokens
C15_Witness ==
    /\ last.op = "authenticate"
    /\ last.out = "token"
    /\ \E token \in DOMAIN sessions :
         /\ token # last.rtoken
         /\ Data(token) = Data(last.rtoken)
         /\ last.rtoken \in DOMAIN sessions

\* C16: constructing the manager with a supplied key whose length is not 32
\* raises and brings no manager into existence (no key, no cache, no
\* users table set up); with a 32-byte key or with no key construction
\* succeeds and the codec's key has 32 bytes; the key a manager holds is the
\* supplied one at its full length, never a truncated or padded one.
C16_KeyLength ==
    /\ [](/\ key_len \in {0, 32}
          /\ key_len = 0 => sessions = << >> /\ issued = {} /\ users = << >>)
    /\ [][last'.op = "__init__" =>
            /\ (last'.out = "raise") <=> (last'.n \notin {NoKey, 32})
            /\ last'.out = "raise" => key_len' = 0 /\ UNCHANGED <<users, sessions, issued>>
            /\ last'.out # "raise" =>
                 /\ key_len' = 32
                 /\ last'.n # NoKey => key_len' = last'.n
                 /\ sessions' = << >>]_vars

\* a 33-byte key was refused, no manager exists
C16_Witness ==
    /\ last.op = "__init__"
    /\ last.out = "raise"
    /\ last.n = 33
    /\ key_len = 0

\* a manager constructed without a key issued a token
C16_WitnessGenerated ==
    /\ key_len = 32
    /\ issued # {}

\* refresh_token(token) at a time that takes it to the rotation branch: the
\* token was issued, is unexpired, its user exists and the refresh window
\* of its session has passed
C17_Rotating(token) ==
    /\ token \in issued
    /\ Unexpired(token)
    /\ has_user_by_id(users, Data(token).user_id)
    /\ now - Data(token).last_refresh >= refresh_interval

C18_CheckThenDelete ==
    \A c \in Threads :
      /\ callers[c].pc = "KeyError" => callers[c].raced
      /\ callers[c].pc \in {"validate_session 344", "logout 402"} /\ ~callers[c].raced
           => callers[c].token \in DOMAIN sessions
      /\ callers[c].pc = "cleanup_expired_sessions 466" /\ ~callers[c].raced
           => callers[c].todo \subseteq DOMAIN sessions

\* a thread died of KeyError deleting a key another thread had removed
C18_Witness ==
    \E c \in Threads :
      /\ callers[c].pc = "KeyError"
      /\ callers[c].raced
      /\ callers[c].token \notin DOMAIN sessions

\* the methods that take a token and validate it
C19_Validating == {"validate_session", "refresh_token", "check_permission", "get_user_info"}

\* C19: expiry is absorbing. The expires_at of a cached session is the one
\* its token carries and no call changes it; the clock does not go back; so
\* once now > expires_at of an issued token, validate_session,
\* refresh_token, check_permission and get_user_info on it fail (None or
\* False), whatever calls of authenticate, validate_session, refresh_token,
\* logout, change_password and cleanup_expired_sessions came before.
C19_ExpiryAbsorbing ==
    /\ [](/\ \A token \in DOMAIN sessions :
               sessions[token].expires_at = Data(token).expires_at
          /\ last.op \in C19_Validating /\ last.token \in issued /\ ~Unexpired(last.token)
               => last.out \in {"None", "False"} /\ last.token \notin DOMAIN sessions)
    /\ [][/\ now' >= now
          /\ \A token \in DOMAIN sessions \cap DOMAIN sessions' :
               sessions'[token].expires_at = sessions[token].expires_at]_vars

\* an expired token was refused a permission after a password change
C19_Witness ==
    /\ last.op = "check_permission"
    /\ last.token \in issued
    /\ ~Unexpired(last.token)
    /\ last.out = "False"
    /\ users # default_users

\* the methods that take a token
C20_OnToken == C19_Validating \cup {"logout"}

\* C20: validate_session, logout, check_permission, get_user_info and
\* refresh_token on a token t add, remove and change no cache entry of
\* another issued token, refresh_token adding at most an entry under a token
\* it just issued; authenticate adds at most one entry, under its fresh
\* token, and touches no other; cleanup_expired_sessions adds nothing and
\* leaves every unexpired entry as it is.
C20_Isolation ==
    [][LET Kept(k) == k \in DOMAIN sessions' /\ sessions'[k] = sessions[k] IN
        /\ last'.op \in C20_OnToken =>
             /\ \A k \in DOMAIN sessions \ {last'.token} : Kept(k)
             /\ DOMAIN sessions' \ DOMAIN sessions \subseteq {last'.token} \cup (issued' \ issued)
        /\ last'.op \in C20_OnToken \ {"refresh_token"} => issued' = issued
        /\ last'.op = "authenticate" =>
             /\ \A k \in DOMAIN sessions : Kept(k)
             /\ DOMAIN sessions' \ DOMAIN sessions \subseteq {last'.rtoken} \ issued
        /\ last'.op = "cleanup_expired_sessions" =>
             /\ \A k \in DOMAIN sessions : now <= sessions[k].expires_at => Kept(k)
             /\ DOMAIN sessions' \subseteq DOMAIN sessions]_vars

\* a logout removed its token and another token's entry is still cached
C20_Witness ==
    /\ last.op = "logout"
    /\ last.out = "True"
    /\ \E k \in DOMAIN sessions : k # last.token /\ k \in issued

\* a sweep removed an expired entry and kept an unexpired one
C20_WitnessSweep ==
    /\ last.op = "cleanup_expired_sessions"
    /\ last.n >= 1
    /\ \E k \in DOMAIN sessions : Unexpired(k)

====
